---- MODULE Spec2Model ----
(***************************************************************************)
(* A model of src/nylas-connection.ts: the attribute descriptors, the      *)
(* resource model (fromJSON / save), the paginated collection operations   *)
(* (forEach, count, first, list, find, delete) and the request dispatcher  *)
(* (NylasConnection.request).                                              *)
(*                                                                         *)
(* One public operation runs at a time.  A call action is the synchronous  *)
(* part of the operation; RequestCallback is the callback the dispatcher   *)
(* hands to the HTTP client; the remaining actions are the promise         *)
(* handlers (.then / .catch) the operation attached.                       *)
(***************************************************************************)
EXTENDS Integers, Sequences, FiniteSets, TLC

VARIABLES
  serverCount,  \* number of items the server holds for the collection
  call,         \* the public operation in progress and its arguments
  pc,           \* "idle" | "wait" | "then" | "settle" | "done"
  inflight,     \* requests handed to the HTTP client and not yet answered
  sent,         \* every request issued by the operation, in order
  received,     \* what the HTTP client reported for the last request
  settled,      \* outcome of the dispatcher promise of the last request
  accumulated,  \* _range: the items accumulated so far
  cursor,       \* forEach: the local variable offset
  delivered,    \* forEach: the items passed to eachCallback, in order
  ret,          \* the promise the operation returned to the caller
  cbCalls,      \* invocations of the trailing (or completion) callback
  inst,         \* fields of the model instance save() is called on
  warnings,     \* what the dispatcher passed to console.warn, in order
  trav,         \* concurrent traversals: the state of each list / forEach call
  locals,       \* concurrent traversals: the local variables of each call
  codec         \* a conversion under evaluation: its name, input and output

vars == <<serverCount, call, pc, inflight, sent, received, settled, accumulated,
          cursor, delivered, ret, cbCalls, inst, warnings, trav, locals, codec>>

\* the variables the operations of one sequential caller never touch
aside == <<trav, locals, codec>>

-----------------------------------------------------------------------------
(* Bounds of the model.                                                    *)

\* largest number of items the server holds
MaxItems == 250
\* item counts and limits are taken within Slack of a multiple of the chunk size
Slack == 2
\* largest params.limit
MaxLimit == 201
\* largest params.offset
MaxOffset == 1
\* largest epoch-seconds value handed to the DateTime descriptor
MaxEpoch == 60
\* latest day of January 1970 an ISO date string names
MaxDay == 2

REQUEST_CHUNK_SIZE == 100

-----------------------------------------------------------------------------
(* JavaScript values.  An optional value is a sequence: <<>> when absent.  *)

Undefined == [t |-> "undefined", s |-> "", n |-> 0, b |-> FALSE]
Null == [t |-> "null", s |-> "", n |-> 0, b |-> FALSE]
Str(x) == [t |-> "string", s |-> x, n |-> 0, b |-> FALSE]
Num(k) == [t |-> "number", s |-> "", n |-> k, b |-> FALSE]
Bool(x) == [t |-> "boolean", s |-> "", n |-> 0, b |-> x]
\* the id string of the i-th server item: "id" followed by the decimal i
ItemId(i) == [t |-> "string", s |-> "id", n |-> i, b |-> FALSE]

\* NaN, and the number k/1000 (an integer when 1000 divides k)
NaN == [t |-> "number", s |-> "NaN", n |-> 0, b |-> FALSE]
Thousandths(k) ==
  IF k % 1000 = 0 THEN Num(k \div 1000)
  ELSE [t |-> "number", s |-> "/1000", n |-> k, b |-> FALSE]

\* a Date: its time value in milliseconds since the epoch, or Invalid Date
DateOf(ms) == [t |-> "date", s |-> "", n |-> ms, b |-> FALSE]
InvalidDate == [t |-> "date", s |-> "Invalid Date", n |-> 0, b |-> FALSE]

\* an array, a plain object, an instance of a model class, a thrown error
Array(items) == [t |-> "array", s |-> "", n |-> 0, b |-> FALSE, items |-> items]
Obj(o) == [t |-> "object", s |-> "", n |-> 0, b |-> FALSE, obj |-> o]
Instance(class, fields) ==
  [t |-> "instance", s |-> class, n |-> 0, b |-> FALSE, obj |-> fields]
Thrown(message) == [t |-> "throw", s |-> message, n |-> 0, b |-> FALSE]

\* an ISO-8601 string of January 1970: 1970-01-DD, 1970-01-DDTHH:mmZ,
\* ...THH:mm:ssZ or ...THH:mm:ss.sssZ, the zone being Z, +00:00 or -01:00
Iso(form, day, hour, minute, second, milli, zone) ==
  [t |-> "string", s |-> "iso", n |-> 0, b |-> FALSE,
   iso |-> [form |-> form, day |-> day, hour |-> hour, minute |-> minute,
            second |-> second, milli |-> milli, zone |-> zone]]

Truthy(v) ==
  CASE v.t = "string" -> v.s # ""
    [] v.t = "number" -> v.n # 0
    [] v.t = "boolean" -> v.b
    [] v.t \in {"date", "array", "object", "instance"} -> TRUE
    [] OTHER -> FALSE

\* ToNumber: Number(v), and v in an arithmetic expression
ToNumber(v) ==
  CASE v.t = "number" -> v
    [] v.t = "null" -> Num(0)
    [] v.t = "boolean" -> Num(IF v.b THEN 1 ELSE 0)
    [] v.t = "string" /\ v.s = "" -> Num(0)
    [] v.t = "date" -> IF v = InvalidDate THEN NaN ELSE Num(v.n)
    [] OTHER -> NaN

\* the global isNaN
IsNaN(v) == ToNumber(v) = NaN

\* minutes east of UTC of a zone designator
ZoneMinutes(zone) == IF zone = "-01:00" THEN 0 - 60 ELSE 0

\* Date.parse of an ISO string: milliseconds since the epoch
ParseIso(i) ==
  ((((i.day - 1) * 24 + i.hour) * 60 + i.minute - ZoneMinutes(i.zone)) * 60
     + i.second) * 1000 + i.milli

\* new Date(v)
NewDate(v) ==
  CASE v.t = "string" /\ v.s = "iso" -> DateOf(ParseIso(v.iso))
    [] v.t = "string" -> InvalidDate
    [] v.t = "date" -> v
    [] OTHER -> LET k == ToNumber(v)
                IN  IF k = NaN THEN InvalidDate
                    ELSE IF k.s = "/1000" THEN DateOf(k.n \div 1000)
                    ELSE DateOf(k.n)

\* new Date(v * 1000)
NewDateOfSeconds(v) ==
  LET k == ToNumber(v)
  IN  IF k = NaN THEN InvalidDate
      ELSE IF k.s = "/1000" THEN DateOf(k.n)
      ELSE DateOf(k.n * 1000)

\* Date.prototype.toISOString: always YYYY-MM-DDTHH:mm:ss.sssZ
ToISOString(d) ==
  IF d = InvalidDate THEN Thrown("RangeError: Invalid time value")
  ELSE Iso("millis", d.n \div 86400000 + 1, (d.n \div 3600000) % 24,
           (d.n \div 60000) % 60, (d.n \div 1000) % 60, d.n % 1000, "Z")

\* val.getTime() / 1000.0
GetTimeInSeconds(d) == IF d = InvalidDate THEN NaN ELSE Thousandths(d.n)

\* `${v}` inside a template literal
Interpolate(v) ==
  CASE v.t = "undefined" -> Str("undefined")
    [] v.t = "null" -> Str("null")
    [] OTHER -> v

\* an object: a function from its keys to values; a missing key reads undefined
NoFields == [k \in {} |-> Undefined]
Get(obj, k) == IF k \in DOMAIN obj THEN obj[k] ELSE Undefined
Put(obj, k, v) == [x \in (DOMAIN obj) \cup {k} |-> IF x = k THEN v ELSE obj[x]]

Min(a, b) == IF a < b THEN a ELSE b

-----------------------------------------------------------------------------
(* Attribute descriptors.                                                  *)

Attr(modelKey, jsonKey, kind) ==
  [modelKey |-> modelKey, jsonKey |-> jsonKey, kind |-> kind]

RestfulModelAttributes ==
  << Attr("id", "id", "String"),
     Attr("object", "object", "String"),
     Attr("accountId", "account_id", "String") >>

CalendarAttributes ==
  RestfulModelAttributes \o
  << Attr("name", "name", "String"),
     Attr("description", "description", "String"),
     Attr("readOnly", "read_only", "Boolean"),
     Attr("location", "location", "String"),
     Attr("timezone", "timezone", "String"),
     Attr("isPrimary", "is_primary", "Boolean"),
     Attr("jobStatusId", "job_status_id", "String") >>

EventParticipantAttributes ==
  << Attr("name", "name", "String"),
     Attr("email", "email", "String"),
     Attr("status", "status", "String") >>

\* the participants collection has itemClass EventParticipant
EventAttributes ==
  RestfulModelAttributes \o
  << Attr("calendarId", "calendar_id", "String"),
     Attr("masterEventId", "master_event_id", "String"),
     Attr("iCalUID", "ical_uid", "String"),
     Attr("messageId", "message_id", "String"),
     Attr("title", "title", "String"),
     Attr("description", "description", "String"),
     Attr("owner", "owner", "String"),
     Attr("participants", "participants", "Collection"),
     Attr("readOnly", "read_only", "Boolean"),
     Attr("location", "location", "String"),
     Attr("when", "when", "Object"),
     Attr("busy", "busy", "Boolean"),
     Attr("status", "status", "String"),
     Attr("recurrence", "recurrence", "Object") >>

AccountAttributes ==
  RestfulModelAttributes \o
  << Attr("name", "name", "String"),
     Attr("emailAddress", "email_address", "String"),
     Attr("provider", "provider", "String"),
     Attr("organizationUnit", "organization_unit", "String"),
     Attr("syncState", "sync_state", "String"),
     Attr("billingState", "billing_state", "String"),
     Attr("linkedAt", "linked_at", "DateTime") >>

\* the static attributes of a class, the class named by
\* constructor.name.toLowerCase()
ClassAttributes(class) ==
  CASE class = "calendar" -> CalendarAttributes
    [] class = "eventparticipant" -> EventParticipantAttributes
    [] class = "event" -> EventAttributes
    [] class = "account" -> AccountAttributes

RECURSIVE FromJSONLoop(_, _, _, _)
RECURSIVE ModelToJSON(_, _)

\* new itemClass(connection, json): `if (json) this.fromJSON(json)`
NewModel(class, json) ==
  Instance(class, IF json.t = "object"
                  THEN FromJSONLoop(NoFields, ClassAttributes(class), json.obj, 1)
                  ELSE NoFields)

\* AttributeNumber.fromJSON
NumberFromJSON(val) == IF ~IsNaN(val) THEN ToNumber(val) ELSE Null

\* Attribute.fromJSON and its overrides in the subclasses
AttrFromJSON(kind, val) ==
  CASE kind = "String" -> IF Truthy(val) THEN val ELSE Str("")
    [] kind = "Boolean" -> Bool(val = Str("true") \/ val = Bool(TRUE))
    [] kind = "Number" -> NumberFromJSON(val)
    [] kind = "StringList" -> IF Truthy(val) THEN val ELSE Array(<<>>)
    [] kind = "Date" -> IF ~Truthy(val) THEN Null ELSE NewDate(val)
    [] kind = "DateTime" -> IF ~Truthy(val) THEN Null ELSE NewDateOfSeconds(val)
    [] kind = "Collection" ->
         IF ~Truthy(val) \/ val.t # "array" THEN Array(<<>>)
         ELSE Array([i \in DOMAIN val.items |->
                       NewModel("eventparticipant", val.items[i])])
    [] OTHER -> IF Truthy(val) THEN val ELSE Null

\* Attribute.toJSON and its overrides in the subclasses
AttrToJSON(kind, val) ==
  CASE kind = "Date" ->
         IF ~Truthy(val) THEN val
         ELSE IF val.t # "date"
         THEN Thrown("Attempting to toJSON AttributeDate which is not a date")
         ELSE ToISOString(val)
    [] kind = "DateTime" ->
         IF ~Truthy(val) THEN Null
         ELSE IF val.t # "date"
         THEN Thrown("Attempting to toJSON AttributeDateTime which is not a date")
         ELSE GetTimeInSeconds(val)
    [] kind = "Collection" ->
         IF ~Truthy(val) THEN Array(<<>>)
         ELSE Array([i \in DOMAIN val.items |->
                       IF val.items[i].t = "instance"
                       THEN Obj(ModelToJSON(val.items[i].s, val.items[i].obj))
                       ELSE val.items[i]])
    [] OTHER -> val

\* every declared attribute is assigned, whatever the response holds
hasWireKeyAlways(json, jsonKey) == TRUE

\* RestfulModel.fromJSON: json[attr.jsonKey] !== undefined
hasWireKey(json, jsonKey) == Get(json, jsonKey) # Undefined

\* RestfulModel.fromJSON: the loop over the declared attributes
FromJSONLoop(fields, attributes, json, i) ==
  IF i > Len(attributes) THEN fields
  ELSE LET attr == attributes[i]
           next == IF hasWireKey(json, attr.jsonKey)
                   THEN Put(fields, attr.modelKey,
                            AttrFromJSON(attr.kind, Get(json, attr.jsonKey)))
                   ELSE fields
       IN  FromJSONLoop(next, attributes, json, i + 1)

\* fromJSON with `if (json[attr.jsonKey])` for `!== undefined`
fromJSONTruthyOnly(fields, json) ==
  FromJSONLoop(fields, CalendarAttributes,
               [k \in {x \in DOMAIN json : Truthy(json[x])} |-> json[k]], 1)

fromJSON(fields, json) == FromJSONLoop(fields, CalendarAttributes, json, 1)

\* RestfulModel.toJSON: every declared attribute, then the object key
RECURSIVE ToJSONLoop(_, _, _, _)
ToJSONLoop(json, attributes, fields, i) ==
  IF i > Len(attributes) THEN json
  ELSE LET attr == attributes[i]
       IN  ToJSONLoop(Put(json, attr.jsonKey,
                          AttrToJSON(attr.kind, Get(fields, attr.modelKey))),
                      attributes, fields, i + 1)

toJSON(fields) ==
  Put(ToJSONLoop(NoFields, CalendarAttributes, fields, 1), "object", Str("calendar"))

\* toJSON of an instance of any class: RestfulModel.toJSON, and for an
\* EventParticipant the override that names a nameless participant after
\* its email and deletes the object key
ModelToJSON(class, fields) ==
  LET json == Put(ToJSONLoop(NoFields, ClassAttributes(class), fields, 1),
                  "object", Str(class))
      named == IF ~Truthy(json["name"]) THEN Put(json, "name", json["email"]) ELSE json
  IN  IF class = "eventparticipant"
      THEN [k \in DOMAIN named \ {"object"} |-> named[k]]
      ELSE json

\* Calendar.saveRequestBody
saveRequestBody(fields) ==
  LET calendarJSON == toJSON(fields)
  IN  [k \in {"name", "description", "location", "timezone"} |-> calendarJSON[k]]

\* RestfulModelCollection._createModel: new modelClass(connection, json)
createModel(json) == fromJSON(NoFields, json)

-----------------------------------------------------------------------------
(* Results, errors and requests.                                           *)

\* what a promise resolves with / what a callback receives as 2nd argument
ResVal(v) == [t |-> "value", v |-> v, items |-> <<>>, obj |-> NoFields]
ResUndef == ResVal(Undefined)
ResArray(items) == [t |-> "array", v |-> Undefined, items |-> items, obj |-> NoFields]
ResObject(o) == [t |-> "object", v |-> Undefined, items |-> <<>>, obj |-> o]
ResModel(fields) == [t |-> "model", v |-> Undefined, items |-> <<>>, obj |-> fields]
\* the raw response object a download request resolves with
ResResponse(statusCode) ==
  [t |-> "response", v |-> Num(statusCode), items |-> <<>>, obj |-> NoFields]

\* an Error: its message (the pieces it was concatenated from) and statusCode
Error(message) == [message |-> message, statusCode |-> <<>>]

\* the value of a promise: pending, resolved with value, rejected with err
Pending == [state |-> "pending", value |-> ResUndef, err |-> Error(<<>>)]
Resolved(value) == [state |-> "resolved", value |-> value, err |-> Error(<<>>)]
Rejected(err) == [state |-> "rejected", value |-> ResUndef, err |-> err]
\* forEach returns no promise unless it rejects the view
NoPromise == [state |-> "none", value |-> ResUndef, err |-> Error(<<>>)]
\* the call returned no promise: it threw err
Threw(err) == [state |-> "threw", value |-> ResUndef, err |-> err]

\* one invocation of a callback: callback(err) or callback(null, value)
CallbackError(err) == [failed |-> TRUE, err |-> err, value |-> ResUndef]
CallbackValue(value) == [failed |-> FALSE, err |-> Error(<<>>), value |-> value]

\* a params mapping: view ("" when the key is missing), limit, offset, expanded
Params(view, limit, offset, expanded) ==
  [view |-> view, limit |-> limit, offset |-> offset, expanded |-> expanded]
NoParams == Params("", <<>>, <<>>, <<>>)

\* RestfulModelCollection.path of the calendars collection
path == <<Str("calendars")>>

\* RestfulModel.saveEndpoint: `${this.pathPrefix()}/${collectionName}`
saveEndpoint == <<Str("calendars")>>

\* NylasConnection.requestOptions: the options the HTTP client is given
requestOptions(options) ==
  LET qs == options.qs
      expanded == qs.expanded # <<>> /\ Truthy(qs.expanded[1])
  IN  [ method |-> IF options.method = "" THEN "GET" ELSE options.method,
        path |-> options.path,
        body |-> options.body,
        downloadRequest |-> options.downloadRequest,
        qs |-> IF expanded
               THEN [qs EXCEPT !.view = IF qs.expanded[1] = Bool(TRUE)
                                        THEN "expanded" ELSE @,
                               !.expanded = <<>>]
               ELSE qs ]

Options(method, reqPath, qs, body) ==
  [method |-> method, path |-> reqPath, qs |-> qs, body |-> body,
   downloadRequest |-> FALSE]

-----------------------------------------------------------------------------
(* The HTTP client and the server behind it.                               *)

\* what the HTTP client passes to the dispatcher's callback:
\* (error, response, body); the body of a successful response is the
\* server's answer, the body of a failed one carries the error fields
\* apiVersion is the response header nylas-api-version, <<>> when not sent
Raw(hasResponse, error, statusCode, message, missing_fields, server_error, apiVersion) ==
  [ hasResponse |-> hasResponse, error |-> error, statusCode |-> statusCode,
    message |-> message, missing_fields |-> missing_fields,
    server_error |-> server_error, apiVersion |-> apiVersion ]

\* a version string `${major}.${minor}`, followed by `-${tag}` when tag # ""
Version(major, minor, tag) == [major |-> major, minor |-> minor, tag |-> tag]

SUPPORTED_API_VERSION == Version(2, 1, "")

\* the header values a server may send
ApiVersionHeaders ==
  {<<>>} \cup {<<Version(ma, mi, tag)>> : ma \in 1 .. 3, mi \in 0 .. 2, tag \in {"", "beta"}}

StatusCodes == {200, 299, 300, 404}

TransportErrors == {<<>>, <<Error(<<"ECONNRESET">>)>>}

RawOk(raw) == raw.hasResponse /\ raw.error = <<>> /\ raw.statusCode <= 299

\* every outcome of one HTTP exchange
RawResponses ==
  { Raw(FALSE, e, 0, <<>>, <<>>, <<>>, <<>>) : e \in TransportErrors }
  \cup
  { Raw(TRUE, e, sc, <<>>, <<>>, <<>>, v) :
      e \in TransportErrors, sc \in {c \in StatusCodes : c <= 299},
      v \in ApiVersionHeaders }
  \cup
  { Raw(TRUE, e, sc, m, mf, se, v) :
      e \in TransportErrors, sc \in {c \in StatusCodes : c > 299},
      m \in {<<>>, <<"not found">>},
      mf \in {<<>>, <<"email">>}, se \in {<<>>, <<"boom">>},
      v \in ApiVersionHeaders }

\* the outcomes drawn for the requests of the collection and model operations
OperationResponses ==
  { Raw(TRUE, <<>>, 200, <<>>, <<>>, <<>>, <<SUPPORTED_API_VERSION>>),
    Raw(FALSE, <<>>, 0, <<>>, <<>>, <<>>, <<>>),
    Raw(TRUE, <<>>, 404, <<"not found">>, <<>>, <<>>, <<SUPPORTED_API_VERSION>>) }

\* the server's items at [offset, offset + limit) that exist, 0-based offsets
Slice(n, offset, limit) ==
  [i \in 1 .. (IF offset >= n THEN 0 ELSE Min(limit, n - offset)) |-> offset + i]

\* the JSON object of the i-th item
ItemJSON(i) == [k \in {"id"} |-> ItemId(i)]

\* responses the server may give to a save request; etag is a key no
\* attribute of the calendar declares
SaveResponses ==
  { [k \in keys |-> CASE k = "id" -> id [] k = "name" -> name
                       [] k = "etag" -> Str("e") [] OTHER -> ro] :
      keys \in SUBSET {"id", "name", "read_only", "etag"},
      id \in {Str("c1"), Null},
      name \in {Str("n2"), Str("")},
      ro \in {Bool(TRUE), Str("true"), Bool(FALSE), Null} }

\* the bodies a successful response to request req can carry
Answers(req, n) ==
  IF req.method = "GET" /\ req.path = path
  THEN LET offset == IF req.qs.offset = <<>> THEN 0 ELSE req.qs.offset[1]
           limit == IF req.qs.limit = <<>> THEN REQUEST_CHUNK_SIZE ELSE req.qs.limit[1]
           slice == Slice(n, offset, limit)
       IN  CASE req.qs.view = "count" -> {ResObject([k \in {"count"} |-> Num(n)])}
             [] req.qs.view = "ids" ->
                  {ResArray([i \in DOMAIN slice |-> ItemId(slice[i])])}
             [] OTHER -> {ResArray([i \in DOMAIN slice |-> ItemJSON(slice[i])])}
  ELSE IF req.method = "GET" THEN {ResObject([k \in {"id"} |-> req.path[2]])}
  ELSE IF req.method = "DELETE" THEN {ResObject(NoFields)}
  ELSE {ResObject(r) : r \in SaveResponses}

-----------------------------------------------------------------------------
(* NylasConnection.request: the callback given to the HTTP client.         *)

\* parseInt(version.split('-')[0]): the digits before the dot
parseIntOfVersion(version) == version.major

\* a non-empty warning: the two versions it quotes and the advice appended
Warning(sdkApiVersion, apiVersion, advice) ==
  [sdk |-> sdkApiVersion, api |-> apiVersion, advice |-> advice]

\* NylasConnection._getWarningForVersion; <<>> is the empty string
getWarningForVersion(sdkApiVersion, apiVersion) ==
  IF sdkApiVersion # apiVersion /\ sdkApiVersion # <<>> /\ apiVersion # <<>>
  THEN LET apiNum == parseIntOfVersion(apiVersion[1])
           sdkNum == parseIntOfVersion(sdkApiVersion[1])
       IN  << Warning(sdkApiVersion[1], apiVersion[1],
                      IF sdkNum > apiNum
                      THEN "Please update the version of the API"
                      ELSE IF apiNum > sdkNum THEN "Please update the sdk" ELSE "") >>
  ELSE <<>>

\* the rejection error built for a response with an error or a status > 299
ResponseError(raw) ==
  LET created == IF raw.error # <<>> THEN raw.error[1]
                 ELSE Error(IF raw.message = <<>> THEN <<"">> ELSE raw.message)
      withFields == IF raw.missing_fields # <<>>
                    THEN [created EXCEPT !.message =
                            (IF raw.message = <<>> THEN <<"undefined">> ELSE raw.message)
                            \o <<": ">> \o raw.missing_fields]
                    ELSE created
      withServer == IF raw.server_error # <<>>
                    THEN [withFields EXCEPT !.message =
                            @ \o <<" (Server Error: ">> \o raw.server_error \o <<")">>]
                    ELSE withFields
  IN  IF raw.statusCode # 0
      THEN [withServer EXCEPT !.statusCode = <<raw.statusCode>>]
      ELSE withServer

\* request() with a status threshold of 300 for 299
RequestOutcomeAbove300(resolvedOptions, raw, body) ==
  IF ~raw.hasResponse
  THEN Rejected(IF raw.error # <<>> THEN raw.error[1] ELSE Error(<<"No response">>))
  ELSE IF raw.error # <<>> \/ raw.statusCode > 300
       THEN Rejected(ResponseError(raw))
       ELSE IF resolvedOptions.downloadRequest
            THEN Resolved(ResResponse(raw.statusCode))
            ELSE Resolved(body)

\* the settlement of the promise request() returned
RequestOutcome(resolvedOptions, raw, body) ==
  IF ~raw.hasResponse
  THEN Rejected(IF raw.error # <<>> THEN raw.error[1] ELSE Error(<<"No response">>))
  ELSE IF raw.error # <<>> \/ raw.statusCode > 299
       THEN Rejected(ResponseError(raw))
       ELSE IF resolvedOptions.downloadRequest
            THEN Resolved(ResResponse(raw.statusCode))
            ELSE Resolved(body)

-----------------------------------------------------------------------------
(* The inputs of the operations.                                           *)

NearChunk(n) ==
  \/ n % REQUEST_CHUNK_SIZE <= Slack
  \/ n % REQUEST_CHUNK_SIZE >= REQUEST_CHUNK_SIZE - Slack

ItemCounts == {n \in 0 .. MaxItems : NearChunk(n) \/ n = MaxItems}
LimitOpts == {<<>>} \cup {<<l>> : l \in {x \in 0 .. MaxLimit : NearChunk(x)}}
OffsetOpts == {<<>>} \cup {<<o>> : o \in 0 .. MaxOffset}

ListParams ==
  {Params(v, l, o, <<>>) : v \in {"", "count", "ids"}, l \in LimitOpts, o \in OffsetOpts}
ForEachParams ==
  {Params(v, <<>>, o, <<>>) : v \in {"", "count", "ids"}, o \in {<<>>, <<MaxOffset>>}}
CountParams ==
  {Params(v, <<>>, <<>>, e) :
     v \in {"", "count", "ids", "expanded"}, e \in {<<>>, <<Bool(TRUE)>>}}
FirstParams ==
  {Params(v, <<>>, <<>>, e) : v \in {"", "count", "ids"}, e \in {<<>>, <<Bool(TRUE)>>}}
\* the params of save: nothing, or the convenience key on its own
SaveParams ==
  {Params("", <<>>, <<>>, e) : e \in {<<>>, <<Bool(TRUE)>>, <<Bool(FALSE)>>}}
FindParams ==
  {Params(v, <<>>, <<>>, e) :
     v \in {"", "count", "ids", "expanded"}, e \in {<<>>, <<Bool(TRUE)>>}}
FindIds == {Undefined, Str(""), ItemId(1)}

\* the first argument of delete: nothing, an id string, or a model instance
DeleteArgs ==
  { [kind |-> "none", fields |-> NoFields],
    [kind |-> "id", fields |-> [k \in {"id"} |-> Str("")]],
    [kind |-> "id", fields |-> [k \in {"id"} |-> ItemId(1)]],
    [kind |-> "item", fields |-> [k \in {"id"} |-> ItemId(1)]],
    [kind |-> "item", fields |-> NoFields] }

\* the instances save() is called on
Instances ==
  { [k \in keys |-> CASE k = "id" -> id [] k = "name" -> Str("n1") [] OTHER -> Bool(TRUE)] :
      keys \in SUBSET {"id", "name", "readOnly"}, id \in {Str(""), Str("c0")} }

RequestOptionInputs ==
  { [method |-> m, path |-> path, qs |-> NoParams, body |-> NoFields,
     downloadRequest |-> d] : m \in {"", "GET", "POST"}, d \in BOOLEAN }

\* throws: the trailing callback raises an exception when it is invoked
Call(name, params, hasCallback, attached, id) ==
  [name |-> name, params |-> params, hasCallback |-> hasCallback,
   attached |-> attached, id |-> id, throws |-> FALSE]

\* the same call with a trailing callback that may throw
WithCallback(c, throws) == [c EXCEPT !.throws = throws]

\* the behaviours of the callback handed to count, first, find, delete and
\* save: only a callback that is there can throw
CallbackThrows(hasCallback) == {throws \in BOOLEAN : throws => hasCallback}

\* what a throwing callback throws
ThrownByCallback == Error(<<"thrown by the callback">>)

NoCall == Call("none", NoParams, FALSE, FALSE, Undefined)

-----------------------------------------------------------------------------
(* Pieces of the operations.                                               *)

\* `qs: { ...params, offset, limit }`
ChunkQs(params, offset, limit) ==
  [params EXCEPT !.offset = <<offset>>, !.limit = <<limit>>]

\* _getItems: the request both of its branches issue
getItemsRequest(params, offset, limit) ==
  requestOptions(Options("GET", path, ChunkQs(params, offset, limit), NoFields))

\* _getItems: raw ids for the ids view, else _getModelCollection's models
getItemsResult(params, body) ==
  IF params.view = "ids" THEN body.items
  ELSE [i \in DOMAIN body.items |-> createModel(body.items[i])]

\* list: `params.limit || Infinity`; <<>> stands for Infinity
listLimit(params) ==
  IF params.limit = <<>> \/ params.limit[1] = 0 THEN <<>> ELSE params.limit

\* _range: the default `offset = 0` of an undefined offset
rangeOffset(params) == IF params.offset = <<>> THEN 0 ELSE params.offset[1]

\* _range iteratee: Math.min(REQUEST_CHUNK_SIZE, limit - accumulated.length)
chunkLimit(limit, acc) ==
  IF limit = <<>> THEN REQUEST_CHUNK_SIZE
  ELSE Min(REQUEST_CHUNK_SIZE, limit[1] - Len(acc))

\* the iteratee asking for every chunk at the starting offset
rangeRequestFixedOffset(params, acc) ==
  getItemsRequest(params, rangeOffset(params), chunkLimit(listLimit(params), acc))

\* _range iteratee: the chunk request
rangeRequest(params, acc) ==
  getItemsRequest(params, rangeOffset(params) + Len(acc),
                  chunkLimit(listLimit(params), acc))

\* the iteratee stopping only once the limit is reached
rangeFinishedAtLimit(items, acc, limit) ==
  limit # <<>> /\ Len(acc) >= limit[1]

\* the iteratee stopping only at an empty chunk
rangeFinishedOnEmpty(items, acc, limit) ==
  \/ Len(items) = 0
  \/ (limit # <<>> /\ Len(acc) >= limit[1])

\* _range iteratee: items.length < REQUEST_CHUNK_SIZE || accumulated.length >= limit
rangeFinished(items, acc, limit) ==
  \/ Len(items) < REQUEST_CHUNK_SIZE
  \/ (limit # <<>> /\ Len(acc) >= limit[1])

\* the iteratee with `<=` for `<`
forEachFinishedAtFullChunk(items) == Len(items) <= REQUEST_CHUNK_SIZE

\* forEach iteratee: items.length < REQUEST_CHUNK_SIZE
forEachFinished(items) == Len(items) < REQUEST_CHUNK_SIZE

\* the cursor set to the length of the chunk (`=` for `+=`)
forEachOffsetReset(offset, items) == Len(items)

\* forEach iteratee: offset += items.length
forEachOffset(offset, items) == offset + Len(items)

\* the trailing callback is invoked only if one was supplied
Invoke(invocation) ==
  IF call.hasCallback THEN Append(cbCalls, invocation) ELSE cbCalls

\* a traversal that also requests the following chunk without waiting
IssueAhead(req) ==
  LET ahead == IF req.qs.offset = <<>> THEN <<>>
               ELSE <<[req EXCEPT !.qs.offset = <<@[1] + REQUEST_CHUNK_SIZE>>]>>
  IN  /\ sent' = Append(sent, req) \o ahead
      /\ inflight' = inflight \cup (Len(sent) + 1 .. Len(sent) + 1 + Len(ahead))

\* more requests than one call can issue against MaxItems items
MaxRequests == MaxItems \div REQUEST_CHUNK_SIZE + 2

\* hand a request to the HTTP client
Issue(req) ==
  /\ Len(sent) < MaxRequests
  /\ sent' = Append(sent, req)
  /\ inflight' = inflight \cup {Len(sent) + 1}

\* an operation that fails before any request: callback(err), Promise.reject(err)
UsageError(c, message) ==
  /\ call' = c
  /\ cbCalls' = IF c.hasCallback THEN <<CallbackError(Error(<<message>>))>> ELSE <<>>
  /\ ret' = IF c.throws THEN Threw(ThrownByCallback) ELSE Rejected(Error(<<message>>))
  /\ pc' = "done"
  /\ UNCHANGED <<inflight, sent, received, settled, accumulated, cursor, delivered, inst>>
  /\ UNCHANGED <<warnings, aside>>

\* an operation that starts with one request
Start(c, req, promise) ==
  /\ call' = c
  /\ Issue(req)
  /\ ret' = promise
  /\ pc' = "wait"
  /\ UNCHANGED <<received, settled, accumulated, cursor, delivered, cbCalls, inst>>
  /\ UNCHANGED <<warnings, aside>>

\* .then(v => { callback(null, v); return resolve(v) })
\* .catch(err => { callback(err); return reject(err) })
\* an exception of the callback inside .then rejects the promise .catch is
\* attached to, so the .catch handler runs with it; one inside .catch
\* rejects the returned promise
SettleWith(value) ==
  /\ pc = "then"
  /\ IF settled.state = "resolved"
     THEN IF call.throws
          THEN /\ cbCalls' = cbCalls \o <<CallbackValue(value),
                                          CallbackError(ThrownByCallback)>>
               /\ ret' = Rejected(ThrownByCallback)
          ELSE /\ cbCalls' = Invoke(CallbackValue(value))
               /\ ret' = Resolved(value)
     ELSE /\ cbCalls' = Invoke(CallbackError(settled.err))
          /\ ret' = Rejected(IF call.throws THEN ThrownByCallback ELSE settled.err)
  /\ pc' = "done"
  /\ UNCHANGED <<serverCount, call, inflight, sent, received, settled, accumulated, cursor,
                 delivered>>
  /\ UNCHANGED <<warnings, aside>>

-----------------------------------------------------------------------------
(* The state machine.                                                      *)

\* no operation of the sequential caller has been called
SequentialIdle ==
  /\ call = NoCall
  /\ pc = "idle"
  /\ inflight = {}
  /\ sent = <<>>
  /\ received = Raw(FALSE, <<>>, 0, <<>>, <<>>, <<>>, <<>>)
  /\ settled = Pending
  /\ accumulated = <<>>
  /\ cursor = 0
  /\ delivered = <<>>
  /\ ret = NoPromise
  /\ cbCalls = <<>>
  /\ inst = NoFields
  /\ warnings = <<>>

sequential == <<call, pc, inflight, sent, received, settled, accumulated, cursor,
                delivered, ret, cbCalls, inst, warnings>>

Init ==
  /\ serverCount = 0
  /\ SequentialIdle
  /\ trav = <<>>
  /\ locals = <<>>
  /\ codec = <<>>

\* RestfulModelCollection.list, up to the first chunk request of _range
List ==
  /\ pc = "idle"
  /\ \E params \in ListParams, hasCallback \in BOOLEAN, attached \in BOOLEAN,
        n \in ItemCounts :
       LET c == Call("list", params, hasCallback, attached, Undefined)
       IN  /\ serverCount' = n
           /\ IF params.view = "count"
              THEN UsageError(c, "list() cannot be called with the count view")
              ELSE Start(c, rangeRequest(params, <<>>), Pending)

\* _range: the handler of a fetched chunk
RangeIteratee ==
  /\ pc = "then"
  /\ call.name = "list"
  /\ settled.state = "resolved"
  /\ LET items == getItemsResult(call.params, settled.value)
         acc == accumulated \o items
     IN  /\ accumulated' = acc
         /\ IF rangeFinished(items, acc, listLimit(call.params))
            THEN /\ pc' = "settle"
                 /\ UNCHANGED <<sent, inflight>>
            ELSE /\ Issue(rangeRequest(call.params, acc))
                 /\ pc' = "wait"
  /\ UNCHANGED <<serverCount, call, received, settled, cursor, delivered, ret, cbCalls, inst>>
  /\ UNCHANGED <<warnings, aside>>

\* _range: the fulfilment handler attached to iteratee(): the callback's
\* return value (undefined) when there is a callback, else accumulated
rangeFulfilled(acc, hasCallback) ==
  IF hasCallback
  THEN [calls |-> <<CallbackValue(ResArray(acc))>>, ret |-> Resolved(ResUndef)]
  ELSE [calls |-> <<>>, ret |-> Resolved(ResArray(acc))]

\* a rejection handler that hands over what was accumulated so far
rangeRejectedWithPartial(err, acc, hasCallback) ==
  IF hasCallback
  THEN [calls |-> <<CallbackValue(ResArray(acc))>>, ret |-> Resolved(ResUndef)]
  ELSE [calls |-> <<>>, ret |-> Resolved(ResArray(acc))]

\* _range: the rejection handler attached to iteratee()
rangeRejected(err, acc, hasCallback) ==
  IF hasCallback
  THEN [calls |-> <<CallbackError(err)>>, ret |-> Resolved(ResUndef)]
  ELSE [calls |-> <<>>, ret |-> Rejected(err)]

\* _range: the promise iteratee() returned settles
RangeSettle ==
  /\ call.name = "list"
  /\ \/ pc = "settle"
     \/ pc = "then" /\ settled.state = "rejected"
  /\ LET out == IF settled.state = "resolved"
                THEN rangeFulfilled(accumulated, call.hasCallback)
                ELSE rangeRejected(settled.err, accumulated, call.hasCallback)
     IN  /\ cbCalls' = cbCalls \o out.calls
         /\ ret' = out.ret
  /\ pc' = "done"
  /\ UNCHANGED <<serverCount, call, inflight, sent, received, settled, accumulated, cursor,
                 delivered, inst>>
  /\ UNCHANGED <<warnings, aside>>

\* RestfulModelCollection.forEach, up to the first chunk request
ForEach ==
  /\ pc = "idle"
  /\ \E params \in ForEachParams, hasCallback \in BOOLEAN, attached \in BOOLEAN,
        n \in ItemCounts :
       LET c == Call("forEach", params, hasCallback, attached, Undefined)
       IN  /\ serverCount' = n
           /\ IF params.view = "count"
              THEN UsageError(c, "forEach() cannot be called with the count view")
              ELSE Start(c, getItemsRequest(params, 0, REQUEST_CHUNK_SIZE), NoPromise)

\* forEach: the handler of a fetched chunk
ForEachIteratee ==
  /\ pc = "then"
  /\ call.name = "forEach"
  /\ settled.state = "resolved"
  /\ LET items == getItemsResult(call.params, settled.value)
     IN  /\ delivered' = delivered \o items
         /\ cursor' = forEachOffset(cursor, items)
         /\ IF forEachFinished(items)
            THEN /\ pc' = "settle"
                 /\ UNCHANGED <<sent, inflight>>
            ELSE /\ Issue(getItemsRequest(call.params, forEachOffset(cursor, items),
                                          REQUEST_CHUNK_SIZE))
                 /\ pc' = "wait"
  /\ UNCHANGED <<serverCount, call, received, settled, accumulated, ret, cbCalls, inst>>
  /\ UNCHANGED <<warnings, aside>>

\* forEach: the two handlers attached to iteratee()
ForEachSettle ==
  /\ call.name = "forEach"
  /\ \/ pc = "settle"
     \/ pc = "then" /\ settled.state = "rejected"
  /\ cbCalls' = Invoke(IF settled.state = "resolved"
                       THEN CallbackValue(ResUndef)
                       ELSE CallbackError(settled.err))
  /\ pc' = "done"
  /\ UNCHANGED <<serverCount, call, inflight, sent, received, settled, accumulated, cursor,
                 delivered, ret, inst>>
  /\ UNCHANGED <<warnings, aside>>

\* RestfulModelCollection.count: `qs: { view: 'count', ...params }`
countQs(params) == IF params.view = "" THEN [params EXCEPT !.view = "count"] ELSE params

Count ==
  /\ pc = "idle"
  /\ \E params \in CountParams, hasCallback \in BOOLEAN, attached \in BOOLEAN,
        n \in ItemCounts :
      \E throws \in CallbackThrows(hasCallback) :
       /\ serverCount' = n
       /\ Start(WithCallback(Call("count", params, hasCallback, attached, Undefined),
                             throws),
                requestOptions(Options("GET", path, countQs(params), NoFields)),
                Pending)

\* count: its .then and .catch handlers; the value is json.count
CountSettle ==
  /\ call.name = "count"
  /\ SettleWith(ResVal(Get(settled.value.obj, "count")))
  /\ UNCHANGED inst

\* RestfulModelCollection.first
First ==
  /\ pc = "idle"
  /\ \E params \in FirstParams, hasCallback \in BOOLEAN, attached \in BOOLEAN,
        n \in ItemCounts :
      \E throws \in CallbackThrows(hasCallback) :
       LET c == WithCallback(Call("first", params, hasCallback, attached, Undefined),
                             throws)
       IN  /\ serverCount' = n
           /\ IF params.view = "count"
              THEN UsageError(c, "first() cannot be called with the count view")
              ELSE Start(c, getItemsRequest(params, 0, 1), Pending)

\* first: items[0] of the fetched chunk
firstItem(params, body) ==
  LET items == getItemsResult(params, body)
  IN  IF Len(items) = 0 THEN ResUndef
      ELSE IF params.view = "ids" THEN ResVal(items[1]) ELSE ResModel(items[1])

FirstSettle ==
  /\ call.name = "first"
  /\ SettleWith(firstItem(call.params, settled.value))
  /\ UNCHANGED inst

\* RestfulModelCollection.find with _getModel's request
Find ==
  /\ pc = "idle"
  /\ \E id \in FindIds, params \in FindParams, hasCallback \in BOOLEAN,
        attached \in BOOLEAN, n \in ItemCounts :
      \E throws \in CallbackThrows(hasCallback) :
       LET c == WithCallback(Call("find", params, hasCallback, attached, id), throws)
       IN  /\ serverCount' = n
           /\ IF ~Truthy(id)
              THEN UsageError(c, "find() must be called with an item id")
              ELSE IF params.view = "count" \/ params.view = "ids"
              THEN UsageError(c, "find() cannot be called with the count or ids view")
              ELSE Start(c, requestOptions(Options("GET", path \o <<Interpolate(id)>>,
                                                   params, NoFields)),
                         Pending)

\* find: _getModel's .then builds the model, then find's own handlers
FindSettle ==
  /\ call.name = "find"
  /\ SettleWith(ResModel(createModel(settled.value.obj)))
  /\ UNCHANGED inst

\* RestfulModelCollection.delete and deleteItem, up to the DELETE request
Delete ==
  /\ pc = "idle"
  /\ \E arg \in DeleteArgs, hasCallback \in BOOLEAN, attached \in BOOLEAN,
        n \in ItemCounts :
      \E throws \in CallbackThrows(hasCallback) :
       LET \* `!itemOrId`: nothing, or the empty string; an instance is truthy
           missing == \/ arg.kind = "none"
                      \/ arg.kind = "id" /\ ~Truthy(arg.fields["id"])
           \* a string is wrapped by build({ id: itemOrId })
           item == arg.fields
           c == WithCallback(Call("delete", NoParams, hasCallback, attached,
                                  Get(item, "id")), throws)
       IN  /\ serverCount' = n
           /\ IF missing
              THEN UsageError(c, "delete() requires an item or an id")
              ELSE Start(c, requestOptions(Options("DELETE",
                                                   path \o <<Interpolate(Get(item, "id"))>>,
                                                   NoParams, NoFields)),
                         Pending)

\* deleteItem: its .then and .catch handlers
DeleteSettle ==
  /\ call.name = "delete"
  /\ SettleWith(settled.value)
  /\ UNCHANGED inst

\* RestfulModel._save, up to the request
Save ==
  /\ pc = "idle"
  /\ \E fields \in Instances, hasCallback \in BOOLEAN, attached \in BOOLEAN :
      \E throws \in CallbackThrows(hasCallback), params \in SaveParams :
       LET id == Get(fields, "id")
       IN  /\ call' = WithCallback(Call("save", params, hasCallback, attached, id),
                                   throws)
           /\ inst' = fields
           /\ Issue(requestOptions(
                      Options(IF Truthy(id) THEN "PUT" ELSE "POST",
                              IF Truthy(id) THEN saveEndpoint \o <<Interpolate(id)>>
                              ELSE saveEndpoint,
                              params, saveRequestBody(fields))))
           /\ ret' = Pending
           /\ pc' = "wait"
           /\ UNCHANGED <<serverCount, received, settled, accumulated, cursor, delivered, cbCalls>>
           /\ UNCHANGED <<warnings, aside>>

\* a variant whose rejection handler resets the id of the instance
saveHandlersResetId(this, outcome) ==
  IF outcome.state = "resolved"
  THEN fromJSON(this, outcome.value.obj)
  ELSE fromJSON(this, [id |-> Null])

\* the instance after the handlers of _save: only .then touches this
saveHandlers(this, outcome) ==
  IF outcome.state = "resolved" THEN fromJSON(this, outcome.value.obj) ELSE this

\* _save: .then re-hydrates this from the response; .catch reports the error
SaveSettle ==
  /\ call.name = "save"
  /\ LET rehydrated == saveHandlers(inst, settled)
     IN  /\ inst' = rehydrated
         /\ SettleWith(ResModel(rehydrated))

\* NylasConnection.request called directly
Request ==
  /\ pc = "idle"
  /\ \E options \in RequestOptionInputs, attached \in BOOLEAN :
       /\ Start(Call("request", NoParams, FALSE, attached, Undefined),
                requestOptions(options), Pending)
       /\ UNCHANGED serverCount

\* the outcomes the HTTP client can report for a request of the operation
ResponsesFor(name) == IF name = "request" THEN RawResponses ELSE OperationResponses

\* NylasConnection.request: the callback (error, response, body) => ...
RequestCallback ==
  /\ pc = "wait"
  /\ \E i \in inflight, raw \in ResponsesFor(call.name) :
       \E body \in (IF RawOk(raw) THEN Answers(sent[i], serverCount) ELSE {ResUndef}) :
         LET outcome == RequestOutcome(sent[i], raw, body)
             \* the version check runs once a response is there
             warning == IF raw.hasResponse
                        THEN getWarningForVersion(<<SUPPORTED_API_VERSION>>, raw.apiVersion)
                        ELSE <<>>
         IN  /\ inflight' = inflight \ {i}
             /\ received' = raw
             /\ warnings' = warnings \o warning
             /\ settled' = outcome
             /\ IF call.name = "request"
                THEN ret' = outcome /\ pc' = "done"
                ELSE pc' = "then" /\ UNCHANGED ret
  /\ UNCHANGED <<serverCount, call, sent, accumulated, cursor, delivered, cbCalls, inst>>
  /\ UNCHANGED aside

Next ==
  \/ List
  \/ RangeIteratee
  \/ RangeSettle
  \/ ForEach
  \/ ForEachIteratee
  \/ ForEachSettle
  \/ Count
  \/ CountSettle
  \/ First
  \/ FirstSettle
  \/ Find
  \/ FindSettle
  \/ Delete
  \/ DeleteSettle
  \/ Save
  \/ SaveSettle
  \/ Request
  \/ RequestCallback

Spec == Init /\ [][Next]_vars

\* the same caller when every request is answered and every handler of a
\* settled promise is run by the event loop
\* (at most one of these steps is enabled at a time)
Handlers ==
  \/ RequestCallback
  \/ RangeIteratee
  \/ RangeSettle
  \/ ForEachIteratee
  \/ ForEachSettle

\* the traversals in the ids and count views, whose items are plain ids,
\* from a caller that handles the returned promise
LiveList == List /\ call'.attached /\ call'.params.view # ""
LiveForEach == ForEach /\ call'.attached /\ call'.params.view # ""

LiveNext ==
  \/ LiveList
  \/ LiveForEach
  \/ Handlers

SpecLive == Init /\ [][LiveNext]_vars /\ WF_vars(Handlers)

-----------------------------------------------------------------------------
(* Two traversals of one collection in flight at once.  Each caller calls  *)
(* list or forEach once; the chunk responses arrive in any order.          *)

Callers == {"a", "b"}

\* every call sharing the variables of caller "a"
cursorCellShared(caller) == "a"

\* `let offset = 0` in forEach and `let accumulated = []` in _range are
\* locals of the call: each call owns the cell named after it
cursorCell(caller) == caller

\* the calls the two callers choose from: list of the ids, with and without
\* a limit and an offset, and forEach of the ids or of the models
ConcurrentCalls ==
  { [name |-> "list", params |-> p] :
      p \in {q \in ListParams : /\ q.view = "ids"
                                 /\ q.limit \in {<<>>, <<MaxLimit>>}
                                 /\ q.offset \in {<<>>, <<MaxOffset>>}} }
  \cup
  { [name |-> "forEach", params |-> p] : p \in {q \in ForEachParams : q.view # "count"} }

\* the sizes of the collection the two callers traverse: at least one chunk
\* short of a chunk boundary by one, on it, or past it by one, and the largest
ConcurrentItemCounts ==
  { n \in ItemCounts :
      /\ n + 1 >= REQUEST_CHUNK_SIZE
      /\ \/ n % REQUEST_CHUNK_SIZE <= 1
         \/ n % REQUEST_CHUNK_SIZE = REQUEST_CHUNK_SIZE - 1
         \/ n = MaxItems }

FreshLocals == [offset |-> 0, accumulated |-> <<>>]

NotCalled ==
  [name |-> "none", params |-> NoParams, pc |-> "idle", sent |-> <<>>,
   chunk |-> <<>>, delivered |-> <<>>, result |-> <<>>]

\* the server answers every chunk request from the same static data
StaticOk == Raw(TRUE, <<>>, 200, <<>>, <<>>, <<>>, <<SUPPORTED_API_VERSION>>)

ConcurrentInit ==
  /\ serverCount \in ConcurrentItemCounts
  /\ SequentialIdle
  /\ trav = [c \in Callers |-> NotCalled]
  /\ locals = [c \in Callers |-> FreshLocals]
  /\ codec = <<>>

\* list or forEach is called: the locals are initialized, the first chunk
\* is requested
ConcurrentStart(c) ==
  /\ trav[c].pc = "idle"
  /\ \E k \in ConcurrentCalls :
       LET req == IF k.name = "list" THEN rangeRequest(k.params, <<>>)
                  ELSE getItemsRequest(k.params, 0, REQUEST_CHUNK_SIZE)
       IN  /\ locals' = [locals EXCEPT ![cursorCell(c)] = FreshLocals]
           /\ trav' = [trav EXCEPT ![c] =
                         [NotCalled EXCEPT !.name = k.name, !.params = k.params,
                                           !.pc = "wait", !.sent = <<req>>]]
  /\ UNCHANGED <<serverCount, sequential, codec>>

\* the response to the outstanding chunk request of c arrives
ConcurrentResponse(c) ==
  /\ trav[c].pc = "wait"
  /\ LET req == trav[c].sent[Len(trav[c].sent)]
     IN  \E body \in Answers(req, serverCount) :
           trav' = [trav EXCEPT
                      ![c].chunk = getItemsResult(trav[c].params,
                                                  RequestOutcome(req, StaticOk, body).value),
                      ![c].pc = "then"]
  /\ UNCHANGED <<serverCount, sequential, locals, codec>>

\* the iteratee of c handles the chunk
ConcurrentIteratee(c) ==
  /\ trav[c].pc = "then"
  /\ LET t == trav[c]
         cell == cursorCell(c)
         items == t.chunk
     IN  IF t.name = "list"
         THEN LET acc == locals[cell].accumulated \o items
              IN  /\ locals' = [locals EXCEPT ![cell].accumulated = acc]
                  /\ IF rangeFinished(items, acc, listLimit(t.params))
                     THEN trav' = [trav EXCEPT ![c].pc = "done", ![c].result = acc]
                     ELSE trav' = [trav EXCEPT
                                     ![c].pc = "wait",
                                     ![c].sent = Append(@, rangeRequest(t.params, acc))]
         ELSE LET offset == forEachOffset(locals[cell].offset, items)
              IN  /\ locals' = [locals EXCEPT ![cell].offset = offset]
                  /\ IF forEachFinished(items)
                     THEN trav' = [trav EXCEPT ![c].pc = "done",
                                               ![c].delivered = @ \o items]
                     ELSE trav' = [trav EXCEPT
                                     ![c].pc = "wait",
                                     ![c].delivered = @ \o items,
                                     ![c].sent = Append(@, getItemsRequest(
                                                   t.params, offset, REQUEST_CHUNK_SIZE))]
  /\ UNCHANGED <<serverCount, sequential, codec>>

ConcurrentNext ==
  \E c \in Callers :
    \/ ConcurrentStart(c)
    \/ ConcurrentResponse(c)
    \/ ConcurrentIteratee(c)

SpecConcurrent == ConcurrentInit /\ [][ConcurrentNext]_vars

-----------------------------------------------------------------------------
(* The conversions on their own: a descriptor's fromJSON followed by its   *)
(* toJSON on one wire value, and a model's toJSON followed by the          *)
(* constructor on the JSON it produced.                                    *)

AttributeKinds ==
  {"Number", "String", "StringList", "Boolean", "Date", "DateTime", "Object", "Collection"}

Classes == {"calendar", "eventparticipant", "event", "account"}

IsoStrings ==
  { Iso("date", d, 0, 0, 0, 0, "") : d \in 1 .. MaxDay }
  \cup
  { Iso(f, d, h, mi, IF f = "minutes" THEN 0 ELSE sec, IF f = "millis" THEN ms ELSE 0, z) :
      f \in {"minutes", "seconds", "millis"}, d \in 1 .. MaxDay, h \in {0, 23},
      mi \in {0, 59}, sec \in {0, 59}, ms \in {0, 999}, z \in {"Z", "+00:00", "-01:00"} }

\* the JSON of a participant as the server sends it
ParticipantJSON ==
  { Obj([k \in keys |-> CASE k = "name" -> name [] k = "email" -> Str("ann@x")
                           [] OTHER -> Str("yes")]) :
      keys \in SUBSET {"name", "email", "status"}, name \in {Str("Ann"), Str(""), Null} }

\* the wire values a descriptor of the kind is handed
WireValues(kind) ==
  {Undefined, Null} \cup
  ( CASE kind = "Number" -> {Num(0), Num(7), NaN, Str(""), Str("x"), Bool(TRUE)}
      [] kind = "String" -> {Str(""), Str("x")}
      [] kind = "StringList" -> {Array(<<>>), Array(<<Str("x")>>)}
      [] kind = "Boolean" -> {Bool(TRUE), Bool(FALSE), Str("true"), Str("false")}
      [] kind = "Date" -> IsoStrings \cup {Str("")}
      [] kind = "DateTime" -> {Num(t) : t \in 0 .. MaxEpoch} \cup {Thousandths(1500)}
      [] kind = "Object" -> {Obj(NoFields), Obj([k \in {"time"} |-> Num(1)])}
      [] kind = "Collection" ->
           {Array(<<>>), Obj(NoFields), Str("x")} \cup {Array(<<p>>) : p \in ParticipantJSON} )

\* every assignment of some of the keys of choices, each key to one of its values
Assignments(choices) ==
  UNION { { f \in [keys -> UNION {choices[k] : k \in keys}] :
              \A k \in keys : f[k] \in choices[k] } :
          keys \in SUBSET DOMAIN choices }

Participants ==
  Assignments([k \in {"name", "email", "status"} |->
                 CASE k = "name" -> {Str("Ann"), Str("")}
                   [] k = "email" -> {Str("ann@x")}
                   [] OTHER -> {Str("yes")}])

\* the instances toJSON is called on: the fields hold values of their
\* declared types, or are unset
ModelInstances(class) ==
  CASE class = "calendar" ->
         Assignments([k \in {"id", "object", "name", "readOnly"} |->
                        CASE k = "id" -> {Str("c0")}
                          [] k = "object" -> {Str("calendar")}
                          [] k = "name" -> {Str("n1"), Str("")}
                          [] OTHER -> {Bool(TRUE), Bool(FALSE)}])
    [] class = "eventparticipant" -> Participants
    [] class = "account" ->
         Assignments([k \in {"id", "object", "linkedAt"} |->
                        CASE k = "id" -> {Str("a0")}
                          [] k = "object" -> {Str("account")}
                          [] OTHER -> {DateOf(0), DateOf(1500), DateOf(MaxEpoch * 1000)}])
    [] class = "event" ->
         Assignments([k \in {"object", "title", "participants", "when", "busy"} |->
                        CASE k = "object" -> {Str("event")}
                          [] k = "title" -> {Str("t")}
                          [] k = "participants" ->
                               {Array(<<>>)} \cup
                               {Array(<<Instance("eventparticipant", p)>>) : p \in Participants}
                          [] k = "when" -> {Obj([x \in {"time"} |-> Num(1)])}
                          [] OTHER -> {Bool(TRUE), Bool(FALSE)}])

Conversion(op, of, stage, input, mid, output) ==
  [op |-> op, of |-> of, stage |-> stage, input |-> input, mid |-> mid,
   output |-> output]

CodecInit ==
  /\ serverCount = 0
  /\ SequentialIdle
  /\ trav = <<>>
  /\ locals = <<>>
  /\ \/ \E kind \in AttributeKinds : \E val \in WireValues(kind) :
          codec = Conversion("attribute", kind, "wire", val, Undefined, Undefined)
     \/ \E class \in Classes : \E fields \in ModelInstances(class) :
          codec = Conversion("model", class, "instance", Instance(class, fields),
                             Undefined, Undefined)

\* attr.fromJSON(val, parent)
AttributeFromJSON ==
  /\ codec.op = "attribute"
  /\ codec.stage = "wire"
  /\ codec' = [codec EXCEPT !.mid = AttrFromJSON(codec.of, codec.input),
                            !.stage = "model"]
  /\ UNCHANGED <<serverCount, sequential, trav, locals>>

\* attr.toJSON(val) of the value fromJSON returned
AttributeToJSON ==
  /\ codec.op = "attribute"
  /\ codec.stage = "model"
  /\ codec' = [codec EXCEPT !.output = AttrToJSON(codec.of, codec.mid),
                            !.stage = "back"]
  /\ UNCHANGED <<serverCount, sequential, trav, locals>>

\* x.toJSON()
ModelSerialize ==
  /\ codec.op = "model"
  /\ codec.stage = "instance"
  /\ codec' = [codec EXCEPT !.mid = Obj(ModelToJSON(codec.of, codec.input.obj)),
                            !.stage = "wire"]
  /\ UNCHANGED <<serverCount, sequential, trav, locals>>

\* new Class(connection, json) of the JSON x.toJSON() returned
ModelRebuild ==
  /\ codec.op = "model"
  /\ codec.stage = "wire"
  /\ codec' = [codec EXCEPT !.output = NewModel(codec.of, codec.mid),
                            !.stage = "rebuilt"]
  /\ UNCHANGED <<serverCount, sequential, trav, locals>>

CodecNext ==
  \/ AttributeFromJSON
  \/ AttributeToJSON
  \/ ModelSerialize
  \/ ModelRebuild

SpecCodec == CodecInit /\ [][CodecNext]_vars

-----------------------------------------------------------------------------
(* The start and end accessors of an Event.  codec holds the last          *)
(* assignment: the property set, the value, `when` before and after.       *)

\* `delete obj[k]` for every k of keys
Without(obj, keys) == [k \in DOMAIN obj \ keys |-> obj[k]]

\* `if (!this.when) this.when = {}`: when is undefined or an object
WhenFields(when) == IF Truthy(when) THEN when.obj ELSE NoFields

\* the start setter leaving a collapsed date in place when it stores a number
setStartKeepingDate(when, val) ==
  LET w == WhenFields(when)
  IN  Obj(CASE val.t = "number" ->
                 IF val = Get(w, "end_time") THEN [k \in {"time"} |-> val]
                 ELSE Put(Without(w, {"time", "start_date"}), "start_time", val)
            [] val.t = "string" ->
                 IF val = Get(w, "end_date") THEN [k \in {"date"} |-> val]
                 ELSE Put(Without(w, {"date", "start_time", "time"}), "start_date", val)
            [] OTHER -> w)

\* Event set start: `when` after the assignment
setStart(when, val) ==
  LET w == WhenFields(when)
  IN  Obj(CASE val.t = "number" ->
                 IF val = Get(w, "end_time") THEN [k \in {"time"} |-> val]
                 ELSE Put(Without(w, {"time", "start_date", "date"}), "start_time", val)
            [] val.t = "string" ->
                 IF val = Get(w, "end_date") THEN [k \in {"date"} |-> val]
                 ELSE Put(Without(w, {"date", "start_time", "time"}), "start_date", val)
            [] OTHER -> w)

\* Event set end: `when` after the assignment
setEnd(when, val) ==
  LET w == WhenFields(when)
  IN  Obj(CASE val.t = "number" ->
                 IF val = Get(w, "start_time") THEN [k \in {"time"} |-> val]
                 ELSE Put(Without(w, {"time", "end_date", "date"}), "end_time", val)
            [] val.t = "string" ->
                 IF val = Get(w, "start_date") THEN [k \in {"date"} |-> val]
                 ELSE Put(Without(w, {"date", "time", "end_time"}), "end_date", val)
            [] OTHER -> w)

\* the values a caller assigns to start and end
AssignedValues == {Undefined, Num(0), Num(1), Num(2), Str("d1"), Str("d2")}

\* a new Event: nothing assigned, when undefined
EventInit ==
  /\ serverCount = 0
  /\ SequentialIdle
  /\ trav = <<>>
  /\ locals = <<>>
  /\ codec = Conversion("event", "", "new", Undefined, Undefined, Undefined)

\* event.start = val
SetStart ==
  /\ codec.op = "event"
  /\ \E val \in AssignedValues :
       codec' = Conversion("event", "start", "set", val, codec.output,
                           setStart(codec.output, val))
  /\ UNCHANGED <<serverCount, sequential, trav, locals>>

\* event.end = val
SetEnd ==
  /\ codec.op = "event"
  /\ \E val \in AssignedValues :
       codec' = Conversion("event", "end", "set", val, codec.output,
                           setEnd(codec.output, val))
  /\ UNCHANGED <<serverCount, sequential, trav, locals>>

EventNext ==
  \/ SetStart
  \/ SetEnd

SpecEvent == EventInit /\ [][EventNext]_vars

-----------------------------------------------------------------------------
(* Properties.                                                             *)

\* the item of the collection at 1-based position i, as a traversal with
\* these params hands it over
ExpectedItem(params, i) ==
  IF params.view = "ids" THEN ItemId(i) ELSE [k \in {"id"} |-> ItemId(i)]

CallbackOperations == {"count", "first", "list", "find", "delete", "save"}

\* a list call with a limit and nothing else has resolved its promise
ListWithLimitResolved ==
  /\ pc = "done"
  /\ call.name = "list"
  /\ ~call.hasCallback
  /\ call.params.limit # <<>>
  /\ call.params.offset = <<>>
  /\ ret.state = "resolved"

\* C1: list({limit: L}) resolves with at most L items, and with exactly L
\* items when the server holds at least L.
C1_ListAtMostLimit ==
  ListWithLimitResolved =>
    LET L == call.params.limit[1]
    IN  /\ Len(ret.value.items) <= L
        /\ (serverCount >= L => Len(ret.value.items) = L)

\* The same holds of every limit of at least 1 (0 is read as no limit).
ListAtMostPositiveLimit ==
  (ListWithLimitResolved /\ call.params.limit[1] >= 1) =>
    LET L == call.params.limit[1]
    IN  /\ Len(ret.value.items) <= L
        /\ (serverCount >= L => Len(ret.value.items) = L)

\* C2: forEach hands every item to the item callback exactly once, in
\* ascending offset order, and invokes the completion callback exactly once,
\* after the last item: what was delivered is always a duplicate-free prefix
\* of the collection in server order, the completion callback is invoked at
\* most once and exactly once by the end, and once it was invoked without an
\* error the whole collection has been delivered.
C2_ForEachEveryItemOnce ==
  call.name = "forEach" =>
    /\ Len(delivered) <= serverCount
    /\ \A i \in DOMAIN delivered : delivered[i] = ExpectedItem(call.params, i)
    /\ Len(cbCalls) <= 1
    /\ (pc = "done" /\ call.hasCallback => Len(cbCalls) = 1)
    /\ (cbCalls # <<>> => pc = "done")
    /\ (pc = "done" /\ settled.state = "resolved" => Len(delivered) = serverCount)
    /\ (cbCalls # <<>> /\ call.params.view # "count" =>
          cbCalls[1].failed = (settled.state = "rejected"))

C2_Witness ==
  /\ call.name = "forEach"
  /\ pc = "done"
  /\ serverCount = MaxItems
  /\ Len(delivered) = MaxItems
  /\ Len(sent) > 1
  /\ cbCalls = <<CallbackValue(ResUndef)>>

\* the view of the call is one the operation cannot be combined with
IncompatibleView ==
  \/ call.name \in {"list", "first", "forEach", "find"} /\ call.params.view = "count"
  \/ call.name = "find" /\ call.params.view = "ids"
  \/ call.name = "count" /\ call.params.view \notin {"", "count"}

\* C3: count, list, first, find and forEach called with an incompatible view
\* fail with a usage error and issue no request.
C3_IncompatibleViewRejected ==
  IncompatibleView => sent = <<>> /\ ret.state = "rejected" /\ pc = "done"

\* The same without count, which checks nothing (a callback that throws on
\* the usage error makes the call throw instead of returning the rejection).
IncompatibleViewRejectedExceptCount ==
  (IncompatibleView /\ call.name # "count") =>
     sent = <<>> /\ ret.state \in {"rejected", "threw"} /\ pc = "done"

\* C4: an operation called with a trailing callback reports one outcome on
\* both channels: on failure the promise is rejected with the error the
\* callback got, on success it resolves with the value the callback got.
C4_SameOutcomeOnBothChannels ==
  (pc = "done" /\ call.hasCallback /\ call.name \in CallbackOperations) =>
    /\ Len(cbCalls) = 1
    /\ IF cbCalls[1].failed
       THEN ret = Rejected(cbCalls[1].err)
       ELSE ret = Resolved(cbCalls[1].value)

\* The same without list, whose promise resolves with the callback's return value.
SameOutcomeExceptRange ==
  (pc = "done" /\ call.hasCallback /\ call.name \in CallbackOperations
     /\ ~call.throws
     /\ ~(call.name = "list" /\ sent # <<>>)) =>
    /\ Len(cbCalls) = 1
    /\ IF cbCalls[1].failed
       THEN ret = Rejected(cbCalls[1].err)
       ELSE ret = Resolved(cbCalls[1].value)

\* C5: with a trailing callback and no handler attached by the caller, no
\* operation leaves its returned promise rejected.
C5_NoUnhandledRejection ==
  (call.hasCallback /\ ~call.attached /\ call.name \in CallbackOperations) =>
    ret.state # "rejected"

\* a list or forEach traversal that got past its view check
Traversal == call.name \in {"list", "forEach"} /\ sent # <<>>

\* the offset the traversal started at, and the items it has processed
TraversalStart == IF call.name = "list" THEN rangeOffset(call.params) ELSE 0
Processed == IF call.name = "list" THEN accumulated ELSE delivered

\* C6: within one traversal at most one chunk request is outstanding, it is
\* the latest one, and it was issued after every item received before it had
\* been processed (its offset counts them all); the processed items are in
\* server order.
C6_OneChunkOutstanding ==
  Traversal =>
    /\ Cardinality(inflight) <= 1
    /\ inflight \subseteq {Len(sent)}
    /\ (inflight # {} =>
          sent[Len(sent)].qs.offset = <<TraversalStart + Len(Processed)>>)
    /\ \A i \in DOMAIN Processed :
          Processed[i] = ExpectedItem(call.params, TraversalStart + i)

C6_Witness ==
  /\ Traversal
  /\ Len(sent) = 3
  /\ inflight = {3}
  /\ Len(Processed) = 2 * REQUEST_CHUNK_SIZE

\* C7: when a chunk request of list is rejected the operation fails with that
\* error: the callback, if any, gets the error and nothing else, the promise
\* is rejected with it (or, with a callback, resolves with undefined), the
\* accumulated items reach the caller through neither, and no further
\* request is issued.
C7_Invariant ==
  (call.name = "list" /\ settled.state = "rejected") =>
    /\ inflight = {}
    /\ pc \in {"then", "done"}
    /\ (pc = "done" =>
          /\ ret.value = ResUndef
          /\ IF call.hasCallback
             THEN cbCalls = <<CallbackError(settled.err)>> /\ ret.state = "resolved"
             ELSE cbCalls = <<>> /\ ret = Rejected(settled.err))

C7_Step ==
  (call.name = "list" /\ settled.state = "rejected") =>
     sent' = sent /\ settled' = settled

\* C7: a rejected chunk request fails the whole list operation with that
\* error (C7_Invariant in every state), and nothing is requested after it
\* (C7_Step in every step).
C7_RejectedChunkFailsList == [](C7_Invariant) /\ [][C7_Step]_vars

C7_Witness ==
  /\ call.name = "list"
  /\ pc = "done"
  /\ settled.state = "rejected"
  /\ Len(accumulated) >= REQUEST_CHUNK_SIZE
  /\ call.hasCallback

\* a traversal without a limit that starts at offset 0
Unbounded ==
  /\ Traversal
  /\ call.name = "list" => call.params.limit = <<>> /\ rangeOffset(call.params) = 0

\* C8: an unbounded traversal of N items asks for 100 items at offsets 0,
\* 100, 200, ..., stops at the first chunk shorter than 100, and has issued
\* exactly floor(N/100)+1 requests when it completes.
C8_UnboundedChunkRequests ==
  Unbounded =>
    /\ \A i \in DOMAIN sent :
         /\ sent[i].qs.limit = <<REQUEST_CHUNK_SIZE>>
         /\ sent[i].qs.offset = <<(i - 1) * REQUEST_CHUNK_SIZE>>
         /\ sent[i].method = "GET"
         /\ sent[i].path = path
    /\ Len(sent) <= (serverCount \div REQUEST_CHUNK_SIZE) + 1
    /\ (pc = "done" /\ settled.state = "resolved" =>
          Len(sent) = (serverCount \div REQUEST_CHUNK_SIZE) + 1)

C8_Witness ==
  /\ Unbounded
  /\ pc = "done"
  /\ settled.state = "resolved"
  /\ serverCount = MaxItems
  /\ Len(sent) = 3
  /\ Len(settled.value.items) = MaxItems - 2 * REQUEST_CHUNK_SIZE

\* C9: save issues exactly one request, a POST to the collection when the
\* instance has no id and a PUT to the item when it has one, and after it
\* succeeded every declared field whose wire key is in the response holds the
\* value deserialized from it.
C9_SaveCreatesOrUpdates ==
  call.name = "save" =>
    /\ Len(sent) = 1
    /\ IF Truthy(call.id)
       THEN sent[1].method = "PUT" /\ sent[1].path = <<Str("calendars"), call.id>>
       ELSE sent[1].method = "POST" /\ sent[1].path = <<Str("calendars")>>
    /\ (pc = "done" /\ settled.state = "resolved" =>
          \A i \in DOMAIN CalendarAttributes :
            LET attr == CalendarAttributes[i]
                json == settled.value.obj
            IN  attr.jsonKey \in DOMAIN json =>
                  /\ attr.modelKey \in DOMAIN inst
                  /\ inst[attr.modelKey] =
                       (CASE attr.kind = "Boolean" ->
                               Bool(json[attr.jsonKey] \in {Bool(TRUE), Str("true")})
                          [] OTHER ->
                               IF json[attr.jsonKey] \in {Null, Str("")}
                               THEN Str("") ELSE json[attr.jsonKey]))

C9_Witness ==
  /\ call.name = "save"
  /\ pc = "done"
  /\ settled.state = "resolved"
  /\ sent[1].method = "POST"
  /\ DOMAIN settled.value.obj = {"id", "name", "read_only"}
  /\ settled.value.obj["read_only"] = Str("true")
  /\ settled.value.obj["name"] = Str("")
  /\ "name" \in DOMAIN inst
  /\ inst["id"] = Str("c1")

\* a response with an HTTP error status and no transport error
HttpErrorStatus ==
  received.hasResponse /\ received.error = <<>> /\ received.statusCode > 299

RequestDone == call.name = "request" /\ pc = "done"

\* the dispatcher resolves exactly when a response came with no transport
\* error and a status of at most 299
ResolvesIffOk ==
  /\ ret.state \in {"resolved", "rejected"}
  /\ ret.state = "resolved" <=>
       (received.hasResponse /\ received.error = <<>> /\ received.statusCode <= 299)

MissingId == call.name \in {"find", "delete"} /\ ~Truthy(call.id)

\* C11: no item-addressed request is issued with a missing id: find with a
\* falsy id, and delete with no item or id or with an item whose id is unset,
\* fail with a usage error before any request.
C11_NoRequestWithoutId ==
  MissingId => sent = <<>> /\ pc = "done" /\ ret.state = "rejected"

\* What does hold: find with a falsy id issues no request, and the only
\* request delete issues without an id is the one for an instance it was
\* handed, addressed to the interpolated undefined.
MissingIdRejectedExceptInstance ==
  MissingId =>
    \/ sent = <<>> /\ pc = "done" /\ ret.state \in {"rejected", "threw"}
    \/ /\ call.name = "delete"
       /\ Len(sent) = 1
       /\ sent[1].method = "DELETE"
       /\ sent[1].path = <<Str("calendars"), Str("undefined")>>

\* C12: for every params mapping count(params) issues exactly one request,
\* that request carries view=count, and a successful count resolves to the
\* response's count field.
C12_CountOneRequestWithCountView ==
  call.name = "count" =>
    /\ Len(sent) = 1
    /\ sent[1].qs.view = "count"
    /\ sent[1].method = "GET"
    /\ sent[1].path = path
    /\ (pc = "done" /\ settled.state = "resolved" =>
          ret = Resolved(ResVal(Num(serverCount))))

\* What does hold: exactly one request, and view=count with the count as
\* result when params has neither a view nor a truthy expanded.
CountOneRequest ==
  call.name = "count" =>
    /\ Len(sent) = 1
    /\ sent[1].method = "GET"
    /\ sent[1].path = path
    /\ (call.params.view \in {"", "count"} /\ call.params.expanded = <<>> =>
          /\ sent[1].qs.view = "count"
          /\ (pc = "done" /\ settled.state = "resolved" /\ ~call.throws =>
                ret = Resolved(ResVal(Num(serverCount)))))

\* a traversal never asks for the same (path, offset) twice
NoRepeatedChunkRequest ==
  Traversal =>
    \A i, j \in DOMAIN sent :
      i < j => <<sent[i].path, sent[i].qs.offset>> # <<sent[j].path, sent[j].qs.offset>>

\* once a request of the operation was rejected, or the operation failed
\* before any request, nothing more is requested
NoRequestAfterRejection ==
  (settled.state = "rejected" \/ ret.state = "rejected") => sent' = sent

\* C13: no operation retries: after a request of an operation was rejected
\* the operation issues no further request, and one traversal never requests
\* the same (path, offset) pair twice.
C13_NoRetry == [](NoRepeatedChunkRequest) /\ [][NoRequestAfterRejection]_vars

C13_Witness ==
  /\ call.name = "forEach"
  /\ pc = "done"
  /\ settled.state = "rejected"
  /\ Len(sent) = 3
  /\ sent[3].qs.offset = <<2 * REQUEST_CHUNK_SIZE>>

\* the zero value a descriptor deserializes null to
ZeroValue(kind) ==
  CASE kind = "String" -> Str("")
    [] kind = "Boolean" -> Bool(FALSE)
    [] OTHER -> Null

\* the step in which save's fulfilment handler runs fromJSON on the response
SaveRehydrates ==
  call.name = "save" /\ pc = "then" /\ settled.state = "resolved" /\ pc' = "done"

\* the declared attributes whose wire key is in json
PresentAttributes(json) ==
  {i \in DOMAIN CalendarAttributes : CalendarAttributes[i].jsonKey \in DOMAIN json}

C14_Step ==
  SaveRehydrates =>
    LET json == settled.value.obj
        written == {CalendarAttributes[i].modelKey : i \in PresentAttributes(json)}
    IN  /\ DOMAIN inst' = DOMAIN inst \cup written
        /\ \A k \in DOMAIN inst \ written : inst'[k] = inst[k]
        /\ \A i \in PresentAttributes(json) :
              json[CalendarAttributes[i].jsonKey] = Null =>
                inst'[CalendarAttributes[i].modelKey] = ZeroValue(CalendarAttributes[i].kind)
        /\ IF call.throws
           THEN cbCalls'[1] = CallbackValue(ResModel(inst'))
           ELSE ret' = Resolved(ResModel(inst'))

\* C14: fromJSON, as save runs it on the response, changes only declared
\* fields whose wire key is present: a field whose key is missing keeps its
\* value, no undeclared key is written, a present null is overwritten with
\* the descriptor's zero value, and the instance itself is what save
\* resolves with (what it hands to a callback that throws).
C14_FromJSONChangesPresentKeysOnly == [][C14_Step]_vars

C14_Witness ==
  /\ call.name = "save"
  /\ pc = "done"
  /\ settled.state = "resolved"
  /\ DOMAIN settled.value.obj = {"read_only", "etag"}
  /\ settled.value.obj["read_only"] = Null
  /\ DOMAIN inst = {"id", "name", "readOnly"}
  /\ inst["name"] = Str("n1")
  /\ inst["id"] = Str("c0")
  /\ inst["readOnly"] = Bool(FALSE)

\* the offset of the i-th request of the traversal
OffsetOf(i) == sent[i].qs.offset[1]

\* C19: in every list and forEach traversal the first chunk request carries
\* the starting offset, every later one the offset of its predecessor plus
\* the number of items its predecessor's response actually held, so each
\* offset is the starting offset plus all items received before it, and the
\* offsets never decrease.
C19_OffsetAdvancesByReceived ==
  Traversal =>
    /\ \A i \in DOMAIN sent : sent[i].qs.offset # <<>>
    /\ OffsetOf(1) = TraversalStart
    /\ \A i \in 1 .. Len(sent) - 1 : OffsetOf(i) <= OffsetOf(i + 1)
    /\ (pc = "wait" /\ Len(sent) >= 2 =>
          /\ settled.state = "resolved"
          /\ OffsetOf(Len(sent)) = OffsetOf(Len(sent) - 1) + Len(settled.value.items)
          /\ OffsetOf(Len(sent)) = TraversalStart + Len(Processed))

C19_Witness ==
  /\ call.name = "forEach"
  /\ call.params.view = "ids"
  /\ pc = "wait"
  /\ Len(sent) = 3
  /\ OffsetOf(3) = 2 * REQUEST_CHUNK_SIZE
  /\ Len(settled.value.items) = REQUEST_CHUNK_SIZE

\* the server reported an API version other than the one the SDK supports
ReportedVersionDiffers ==
  received.apiVersion # <<>> /\ received.apiVersion[1] # SUPPORTED_API_VERSION

\* version a is newer than version b: a later major, or the same major and
\* a later minor
Newer(a, b) == a.major > b.major \/ (a.major = b.major /\ a.minor > b.minor)

\* C20: after any response the dispatcher warns exactly when the
\* server-reported API version differs from the SDK's supported version,
\* every warning says which side is newer (the API is to be updated when the
\* SDK is newer, the SDK when the API is newer), and the request resolves or
\* rejects as it would without the warning.
C20_WarnsWhichSideIsNewer ==
  (RequestDone /\ received.hasResponse) =>
    /\ (warnings # <<>>) <=> ReportedVersionDiffers
    /\ Len(warnings) <= 1
    /\ \A i \in DOMAIN warnings :
         /\ warnings[i].advice # ""
         /\ Newer(warnings[i].sdk, warnings[i].api) =>
              warnings[i].advice = "Please update the version of the API"
         /\ Newer(warnings[i].api, warnings[i].sdk) =>
              warnings[i].advice = "Please update the sdk"
    /\ ResolvesIffOk

\* What does hold: one warning exactly when a reported version differs, the
\* advice decided by the integer parts of the versions alone, and the
\* outcome that of the response.
WarnsByIntegerPart ==
  (RequestDone /\ received.hasResponse) =>
    /\ (warnings # <<>>) <=> ReportedVersionDiffers
    /\ Len(warnings) <= 1
    /\ \A i \in DOMAIN warnings :
         /\ warnings[i].sdk = SUPPORTED_API_VERSION
         /\ warnings[i].api = received.apiVersion[1]
         /\ warnings[i].advice =
              (IF warnings[i].sdk.major > warnings[i].api.major
               THEN "Please update the version of the API"
               ELSE IF warnings[i].api.major > warnings[i].sdk.major
               THEN "Please update the sdk" ELSE "")
    /\ ResolvesIffOk

IsPrefix(a, b) == Len(a) <= Len(b) /\ SubSeq(b, 1, Len(a)) = a

\* the answer of the static server to a chunk request
AnswerTo(req, n) == CHOOSE body \in Answers(req, n) : TRUE

\* list running alone on n items: its requests and the items it yields
RECURSIVE AloneList(_, _, _, _)
AloneList(params, n, acc, reqs) ==
  LET req == rangeRequest(params, acc)
      items == getItemsResult(params, AnswerTo(req, n))
      all == acc \o items
  IN  IF rangeFinished(items, all, listLimit(params))
      THEN [sent |-> Append(reqs, req), items |-> all]
      ELSE AloneList(params, n, all, Append(reqs, req))

\* forEach running alone on n items
RECURSIVE AloneForEach(_, _, _, _, _)
AloneForEach(params, n, offset, got, reqs) ==
  LET req == getItemsRequest(params, offset, REQUEST_CHUNK_SIZE)
      items == getItemsResult(params, AnswerTo(req, n))
  IN  IF forEachFinished(items)
      THEN [sent |-> Append(reqs, req), items |-> got \o items]
      ELSE AloneForEach(params, n, forEachOffset(offset, items), got \o items,
                        Append(reqs, req))

Alone(name, params, n) ==
  IF name = "list" THEN AloneList(params, n, <<>>, <<>>)
  ELSE AloneForEach(params, n, 0, <<>>, <<>>)

\* the items caller c has been handed so far
Handed(c) == IF trav[c].name = "list" THEN trav[c].result ELSE trav[c].delivered

\* C15: two concurrent traversals of one collection do not share cursor
\* state: under every interleaving of the chunk responses the requests each
\* traversal has issued (offsets included) and the items it has handed over
\* are a prefix of what it requests and hands over when running alone, and
\* all of it once the traversal is done.
C15_ConcurrentTraversalsIndependent ==
  \A c \in Callers :
    trav[c].pc # "idle" =>
      LET alone == Alone(trav[c].name, trav[c].params, serverCount)
      IN  /\ IsPrefix(trav[c].sent, alone.sent)
          /\ IsPrefix(Handed(c), alone.items)
          /\ (trav[c].pc = "done" =>
                trav[c].sent = alone.sent /\ Handed(c) = alone.items)

C15_Witness ==
  /\ trav["a"].name = "list"
  /\ trav["b"].name = "forEach"
  /\ trav["a"].pc = "done"
  /\ Len(trav["a"].sent) = 3
  /\ Len(trav["a"].result) = MaxLimit
  /\ trav["b"].pc = "wait"
  /\ Len(trav["b"].sent) = 2
  /\ Len(trav["b"].delivered) = REQUEST_CHUNK_SIZE

\* a descriptor of the kind was handed the wire value and its result was
\* serialized again
WentRound(kind) ==
  codec.op = "attribute" /\ codec.of = kind /\ codec.stage = "back"

\* the wire value is an epoch-seconds integer of at least lowest
EpochSeconds(lowest) ==
  codec.input.t = "number" /\ codec.input.s = "" /\ codec.input.n >= lowest

IsIsoString(v) == v.t = "string" /\ v.s = "iso"

\* C16: for every epoch-seconds integer t >= 0 of the range
\* DateTime.toJSON(DateTime.fromJSON(t)) = t, and for every valid ISO-8601
\* date string s Date.toJSON(Date.fromJSON(s)) = s.
C16_DateRoundTrip ==
  /\ (WentRound("DateTime") /\ EpochSeconds(0)) => codec.output = codec.input
  /\ (WentRound("Date") /\ IsIsoString(codec.input)) => codec.output = codec.input

\* What does hold: every t >= 1 comes back, 0 comes back as null; an ISO
\* string comes back as the string toISOString gives for the same instant,
\* which is the input exactly when that is of the form
\* YYYY-MM-DDTHH:mm:ss.sssZ.
DateRoundTripNormalizes ==
  /\ (WentRound("DateTime") /\ EpochSeconds(1)) =>
        codec.mid = DateOf(codec.input.n * 1000) /\ codec.output = codec.input
  /\ (WentRound("DateTime") /\ codec.input = Num(0)) => codec.output = Null
  /\ (WentRound("Date") /\ IsIsoString(codec.input)) =>
        /\ IsIsoString(codec.output)
        /\ codec.output.iso.form = "millis"
        /\ codec.output.iso.zone = "Z"
        /\ ParseIso(codec.output.iso) = ParseIso(codec.input.iso)
        /\ (codec.output = codec.input <=>
              (codec.input.iso.form = "millis" /\ codec.input.iso.zone = "Z"))

\* an instance was serialized and a new instance built from the JSON
Rebuilt == codec.op = "model" /\ codec.stage = "rebuilt"

\* C17: for an instance x of Calendar, Event, Account or EventParticipant
\* with any assignment of its declared fields, the instance built from
\* x.toJSON() has every declared field equal to x's.
C17_ModelRoundTrip ==
  Rebuilt =>
    \A i \in DOMAIN ClassAttributes(codec.of) :
      LET key == ClassAttributes(codec.of)[i].modelKey
      IN  Get(codec.output.obj, key) = Get(codec.input.obj, key)

\* What does hold: the String (object and a participant's name apart),
\* Boolean and Object fields come back as they were, and a linkedAt after
\* the epoch comes back as the same instant.
PlainFieldsRoundTrip ==
  Rebuilt =>
    \A i \in DOMAIN ClassAttributes(codec.of) :
      LET attr == ClassAttributes(codec.of)[i]
          was == Get(codec.input.obj, attr.modelKey)
          now == Get(codec.output.obj, attr.modelKey)
      IN  /\ (/\ attr.kind \in {"String", "Boolean", "Object"}
              /\ attr.modelKey # "object"
              /\ ~(codec.of = "eventparticipant" /\ attr.modelKey = "name")) =>
                now = was
          /\ (attr.kind = "DateTime" /\ was.t = "date" /\ was.n > 0) => now = was
          /\ (attr.kind = "DateTime" /\ was.t = "date" /\ was.n = 0) => now = Null
          /\ (attr.modelKey = "object") => now = Str(codec.of)
          /\ (codec.of = "eventparticipant" /\ attr.modelKey = "name" /\ ~Truthy(was)) =>
                now = Get(codec.input.obj, "email")

\* a descriptor was handed undefined or null
FromAbsent ==
  /\ codec.op = "attribute"
  /\ codec.stage \in {"model", "back"}
  /\ codec.input \in {Undefined, Null}

\* C18: for every attribute kind, fromJSON of undefined or null does not
\* raise and returns the kind's zero value: '' for String, [] for StringList
\* and Collection, false for Boolean, null for Number, Date, DateTime and
\* Object.
C18_FromJSONOfAbsentIsZero ==
  FromAbsent =>
    codec.mid = (CASE codec.of = "String" -> Str("")
                   [] codec.of \in {"StringList", "Collection"} -> Array(<<>>)
                   [] codec.of = "Boolean" -> Bool(FALSE)
                   [] OTHER -> Null)

\* What does hold: the same, but for the Number descriptor handed null,
\* which returns 0.
FromJSONOfAbsentIsZeroExceptNumberOfNull ==
  FromAbsent =>
    codec.mid = (CASE codec.of = "String" -> Str("")
                   [] codec.of \in {"StringList", "Collection"} -> Array(<<>>)
                   [] codec.of = "Boolean" -> Bool(FALSE)
                   [] codec.of = "Number" /\ codec.input = Null -> Num(0)
                   [] OTHER -> Null)

\* the last step assigned a number or a string to the property
Assigned(prop) ==
  codec.op = "event" /\ codec.of = prop /\ codec.input.t \in {"number", "string"}

\* the names the fields of `when` have for the kind of the assigned value
TimeOrDate == IF codec.input.t = "number" THEN "time" ELSE "date"
StartField == IF codec.input.t = "number" THEN "start_time" ELSE "start_date"
EndField == IF codec.input.t = "number" THEN "end_time" ELSE "end_date"

\* `when` was replaced by the single collapsed field
Collapsed == codec.output = Obj([k \in {TimeOrDate} |-> codec.input])

\* the value was stored in field and no collapsed field is left
StoredIn(field) ==
  /\ Get(codec.output.obj, field) = codec.input
  /\ "time" \notin DOMAIN codec.output.obj
  /\ "date" \notin DOMAIN codec.output.obj

\* the end (the start) `when` currently holds: its end_time or end_date
\* (start_time or start_date), or the collapsed time or date that stands for
\* both
CurrentOf(when, fields) ==
  LET w == WhenFields(when)
      held == {k \in fields \cup {"time", "date"} : k \in DOMAIN w}
  IN  {w[k] : k \in held}

\* C21 as stated: setting start to a value equal to the current end (or end
\* to a value equal to the current start) collapses `when` to {time: v} or
\* {date: v}; any other number or string is stored as start_time / end_time
\* or start_date / end_date and the collapsed field is removed.
C21_CollapsesOnCurrentEnd ==
  /\ Assigned("start") =>
        IF codec.input \in CurrentOf(codec.mid, {"end_time", "end_date"})
        THEN Collapsed ELSE StoredIn(StartField)
  /\ Assigned("end") =>
        IF codec.input \in CurrentOf(codec.mid, {"start_time", "start_date"})
        THEN Collapsed ELSE StoredIn(EndField)

\* C21 amended: setting start to a number equal to the end_time stored in
\* `when`, or to a string equal to its end_date (or end to a number equal to
\* start_time, a string equal to start_date) collapses `when` to {time: v}
\* or {date: v}; any other number or string, the value of an already
\* collapsed field included, is stored as start_time / end_time or
\* start_date / end_date and the collapsed fields are removed.
C21_CollapsesOnStoredEnd ==
  /\ Assigned("start") =>
        IF codec.input = Get(WhenFields(codec.mid), EndField)
        THEN Collapsed ELSE StoredIn(StartField)
  /\ Assigned("end") =>
        IF codec.input = Get(WhenFields(codec.mid), StartField)
        THEN Collapsed ELSE StoredIn(EndField)

C21_Witness ==
  /\ Assigned("start")
  /\ codec.input = Num(1)
  /\ codec.mid = Obj([k \in {"start_time", "end_time"} |->
                        IF k = "end_time" THEN Num(1) ELSE Num(2)])
  /\ codec.output = Obj([k \in {"time"} |-> Num(1)])

\* the fields `when` holds after the assignments so far
WhenNow == DOMAIN WhenFields(codec.output)

TimeFields == {"start_time", "end_time", "time"}
DateFields == {"start_date", "end_date", "date"}

\* no collapsed field next to a start_ or end_ field
NoCollapsedNextToRange ==
  codec.op = "event" =>
    (WhenNow \cap {"time", "date"} # {} =>
       WhenNow \cap {"start_time", "end_time", "start_date", "end_date"} = {})

\* C26: after any sequence of assignments to start and end, starting from
\* an empty `when`, `when` never holds time-based fields together with
\* date-based fields, and never a collapsed field together with a start_ or
\* end_ field.
C26_WhenWellFormed ==
  codec.op = "event" =>
    /\ (WhenNow \cap TimeFields = {} \/ WhenNow \cap DateFields = {})
    /\ (WhenNow \cap {"time", "date"} # {} =>
          WhenNow \cap {"start_time", "end_time", "start_date", "end_date"} = {})

\* count, first, find, delete or save called with a trailing callback
CallbackCall ==
  call.name \in {"count", "first", "find", "delete", "save"} /\ call.hasCallback

\* the call failed: a usage error, or its request was rejected
CallFailed == sent = <<>> \/ settled.state = "rejected"

\* C22: count, first, find, delete and save invoke a supplied callback
\* exactly once per call, with an error when the call failed and with a
\* null error and the result when it succeeded, never both and never
\* twice, also when the callback throws while it is invoked.
C22_CallbackExactlyOnce ==
  CallbackCall =>
    /\ Len(cbCalls) <= 1
    /\ (pc = "done" =>
          /\ Len(cbCalls) = 1
          /\ cbCalls[1].failed = CallFailed)

\* What does hold: a callback that returns is invoked exactly once, and so
\* is one that throws on a failure; one that throws on the success is
\* invoked a second time, with what it threw.
CallbackOnceUnlessThrownOnSuccess ==
  (CallbackCall /\ pc = "done") =>
    IF call.throws /\ ~CallFailed
    THEN /\ Len(cbCalls) = 2
         /\ ~cbCalls[1].failed
         /\ cbCalls[2] = CallbackError(ThrownByCallback)
         /\ ret = Rejected(ThrownByCallback)
    ELSE /\ Len(cbCalls) = 1
         /\ cbCalls[1].failed = CallFailed

\* a save whose request has not been fulfilled
SaveNotFulfilled == call.name = "save" /\ settled.state # "resolved"

\* C24: when the request issued by save is rejected the instance is left
\* unchanged: no step from the call to the settlement changes a field, and
\* the id is the one save addressed the request with.
C24_RejectedSaveLeavesInstance ==
  /\ [][SaveNotFulfilled => inst' = inst]_vars
  /\ [](SaveNotFulfilled => Get(inst, "id") = call.id)

C24_Witness ==
  /\ call.name = "save"
  /\ pc = "done"
  /\ settled.state = "rejected"
  /\ ret.state = "rejected"
  /\ DOMAIN inst = {"id", "name", "readOnly"}
  /\ inst["id"] = Str("c0")

\* the operations that take a params mapping
ParamsOperations == {"list", "forEach", "first", "count", "find", "save"}

\* _getModel and _save hand the caller's mapping itself to the request as
\* its qs; the others build a new object from it
SharesParams == call.name \in {"find", "save"} /\ sent # <<>>

\* the caller's params mapping as it is now: the qs of the request where
\* that is the same object
ParamsNow == IF SharesParams THEN sent[1].qs ELSE call.params

\* C25: no collection or model operation modifies the params mapping the
\* caller passed: it has the keys and values it was passed with, also when
\* it contains the convenience key expanded.
C25_ParamsUntouched ==
  call.name \in ParamsOperations => ParamsNow = call.params

\* What does hold: the mapping is untouched except by find and save called
\* with a truthy expanded, which lose the key and, for expanded: true, get
\* view set to expanded.
ParamsUntouchedUnlessSharedExpanded ==
  call.name \in ParamsOperations =>
    IF SharesParams /\ call.params.expanded = <<Bool(TRUE)>>
    THEN ParamsNow = [call.params EXCEPT !.view = "expanded", !.expanded = <<>>]
    ELSE ParamsNow = call.params

\* the traversal has reported its end: list settled its promise (and called
\* its callback if it has one), forEach called onComplete if it has one
Completed ==
  /\ pc = "done"
  /\ inflight = {}
  /\ call.name = "list" => ret.state \in {"resolved", "rejected"}
  /\ call.hasCallback => Len(cbCalls) = 1

\* a traversal asks for at most one chunk more than the server has full ones
RequestsBounded ==
  call.name \in {"list", "forEach"} =>
    Len(sent) <= serverCount \div REQUEST_CHUNK_SIZE + 1

\* C23: every list and forEach traversal eventually completes when the
\* server's items are finite and unchanging and every chunk request is
\* answered, for every starting offset and limit and also when the item
\* count is an exact multiple of 100; it issues at most one request more
\* than the server has full chunks.
C23_TraversalCompletes ==
  /\ (call.name \in {"list", "forEach"}) ~> Completed
  /\ []RequestsBounded

C23_Witness ==
  /\ call.name = "list"
  /\ call.params.limit = <<>>
  /\ call.params.offset = <<MaxOffset>>
  /\ serverCount = 2 * REQUEST_CHUNK_SIZE + MaxOffset
  /\ Len(sent) = 3
  /\ Len(accumulated) = 2 * REQUEST_CHUNK_SIZE
  /\ Completed
====
